---- MODULE Spec2Model ----
(***************************************************************************)
(* demo-app: a small HTTP service, kept in five revisions                  *)
(*   v1.0  src/main.go 358-479          v2.0  src/unnamed/part_001 1-176   *)
(*   v2.1  src/unnamed/part_000 193-439 v2.4  src/main.go 1-356            *)
(*   v2.5  src/unnamed/part_001 178-734 (OpenTelemetry instrumentation)    *)
(* One process runs one revision.  main registers the routes and serves;   *)
(* every request runs its handler in a goroutine of its own, so the steps  *)
(* of different requests interleave.  The only shared mutable state is     *)
(* requestCount (and, in v2.5, the global tracer written once by main).    *)
(* Three specifications share the actions:                                 *)
(*   Spec      requests overlap (MaxReq goroutines), few inputs;           *)
(*   SpecSeq   one request after the other, while the clock advances and   *)
(*             the process environment changes;                            *)
(*   SpecData  one request after the other, with the query strings and the *)
(*             outcomes of math/rand drawn from larger sets.               *)
(***************************************************************************)
EXTENDS Integers, Sequences, FiniteSets, TLC

VARIABLES rev, build, env, now, startTime, port,
          mainPc, provider, tracer, warnings, mux, requestCount, req

vars == <<rev, build, env, now, startTime, port,
          mainPc, provider, tracer, warnings, mux, requestCount, req>>

(***************************************************************************)
(* Bounds of the model.                                                    *)
(***************************************************************************)
\* number of requests one run of the process receives (each has its goroutine)
MaxReq == 2

\* length of the raw value of a query parameter
MaxLen == 2

\* requests after which SpecSeq and SpecData take no further request
MaxCount == 2

Slots == 1..MaxReq

Revisions == {"v1.0", "v2.0", "v2.1", "v2.4", "v2.5"}

\* revisions that declare requestCount
CounterRevisions == {"v2.1", "v2.4", "v2.5"}

(***************************************************************************)
(* Request paths.  A path is the sequence of its segments: the text after  *)
(* the leading "/" split at "/", so "/" is <<"">>, "/api/hello" is         *)
(* <<"api","hello">>, "/health/" is <<"health","">>, "//health" is         *)
(* <<"","health">>.                                                        *)
(***************************************************************************)
RootPath == <<"">>

PHealth  == <<"health">>
PVersion == <<"version">>
PHello   == <<"api", "hello">>
PStatus  == <<"api", "status">>
PFeature == <<"api", "feature">>
PMetrics == <<"api", "metrics">>
PEcho    == <<"api", "echo">>
PInfo    == <<"api", "info">>
PTime    == <<"api", "time">>
PRandom  == <<"api", "random">>

\* every pattern some revision registers
AllPatterns ==
    {RootPath, PHealth, PVersion, PHello, PStatus, PFeature, PMetrics, PEcho,
     PInfo, PTime, PRandom}

\* paths no revision registers: "/foo", "/health/", "/api/hello/x" (canonical)
\* and "//health", "/api/../health" (not canonical)
CanonicalOthers == {<<"foo">>, <<"health", "">>, <<"api", "hello", "x">>}

OtherPaths == CanonicalOthers \cup {<<"", "health">>, <<"api", "..", "health">>}

Paths == AllPatterns \cup OtherPaths

Methods == {"GET", "POST", "CONNECT"}

\* the paths the model also requests with the method CONNECT
AnyMethodPaths == {PHealth, PEcho, <<"", "health">>}

(***************************************************************************)
(* Query strings.  A string that a client chooses is a sequence of tokens: *)
(* a token is one character ("a", the CJK character "U+6D4B"), one escape  *)
(* ("+", "%41" for "A", "%FF" for the byte FF, which is no valid UTF-8,    *)
(* "%zz", which is no escape at all) or a whole parameter name.            *)
(***************************************************************************)
ValueTokens == {"a", "U+6D4B", "+", "%41", "%zz", "%FF"}

\* the raw values X of a parameter, as written in the URL after "name="
RawValues == UNION {[1..n -> ValueTokens] : n \in 0..MaxLen}

NoQuery == <<>>

\* the raw query k=X
RawQuery(k, X) == <<k, "=">> \o X

\* every raw query k=X, k alone, and a query that gives k twice
Queries(k) ==
    {NoQuery, <<k>>, <<k, "=", "a", "&", k, "=", "U+6D4B">>}
        \cup {RawQuery(k, X) : X \in RawValues}

\* the requests a run of Spec draws from: <<method, path, raw query>>
Requests ==
    {<<"GET", p, NoQuery>> : p \in Paths}
        \cup {<<"CONNECT", p, NoQuery>> : p \in AnyMethodPaths}
        \cup {<<"POST", PEcho, NoQuery>>,
              <<"POST", PHealth, RawQuery("name", <<"a">>)>>}

\* the requests a run of SpecSeq draws from: each registered path, no query
SeqRequests == {<<"GET", p, NoQuery>> : p \in AllPatterns}

\* the requests a run of SpecData draws from: the handlers that read the
\* query, with every query and more than one method
DataRequests ==
    {<<"GET", PHello, q>> : q \in Queries("name")}
        \cup {<<m, PEcho, q>> : m \in {"GET", "POST"}, q \in Queries("message")}
        \cup {<<m, PHealth, q>> : m \in Methods, q \in Queries("name")}
        \cup SeqRequests

\* url.ParseQuery: the query is cut at "&", each piece at its first "=", and
\* key and value are unescaped; a piece with a malformed escape is dropped
RECURSIVE SplitOn(_, _, _, _)
SplitOn(q, sep, cur, acc) ==
    IF q = <<>> THEN Append(acc, cur)
    ELSE IF Head(q) = sep THEN SplitOn(Tail(q), sep, <<>>, Append(acc, cur))
    ELSE SplitOn(Tail(q), sep, Append(cur, Head(q)), acc)

\* strings.Cut(piece, "="): the position of the first "=", 0 when none
CutAt(piece) ==
    IF \E i \in 1..Len(piece) : piece[i] = "="
    THEN CHOOSE i \in 1..Len(piece) :
            piece[i] = "=" /\ \A j \in 1..(i - 1) : piece[j] /= "="
    ELSE 0

unescapeToken(t) ==
    CASE t = "+"   -> " "
      [] t = "%41" -> "A"
      [] t = "%FF" -> "xFF"
      [] OTHER     -> t

\* url.QueryUnescape: "+" is a space, %XX is the byte XX, anything else after
\* "%" is an error
QueryUnescape(s) ==
    [err |-> \E i \in 1..Len(s) : s[i] = "%zz",
     val |-> [i \in 1..Len(s) |-> unescapeToken(s[i])]]

RECURSIVE parsePieces(_, _)
parsePieces(pieces, acc) ==
    IF pieces = <<>> THEN acc
    ELSE LET piece == Head(pieces)
             cut   == CutAt(piece)
             key   == QueryUnescape(IF cut = 0 THEN piece
                                    ELSE SubSeq(piece, 1, cut - 1))
             value == QueryUnescape(IF cut = 0 THEN <<>>
                                    ELSE SubSeq(piece, cut + 1, Len(piece)))
         IN IF piece = <<>> \/ key.err \/ value.err
            THEN parsePieces(Tail(pieces), acc)
            ELSE parsePieces(Tail(pieces), Append(acc, <<key.val, value.val>>))

ParseQuery(q) == parsePieces(SplitOn(q, "&", <<>>, <<>>), <<>>)

\* (mutant) the last value of the key instead of the first
QueryGetLast(q, k) ==
    LET vs == SelectSeq(ParseQuery(q), LAMBDA kv : kv[1] = <<k>>)
    IN IF vs = <<>> THEN <<>> ELSE vs[Len(vs)][2]

\* r.URL.Query().Get(k): the first value of k, the empty string when none
QueryGet(q, k) ==
    LET vs == SelectSeq(ParseQuery(q), LAMBDA kv : kv[1] = <<k>>)
    IN IF vs = <<>> THEN <<>> ELSE vs[1][2]

\* fmt.Sprintf with one %s verb: the format's text before the verb, the
\* argument, the text after it
Sprintf(before, arg, after) == <<before>> \o arg \o <<after>>

(***************************************************************************)
(* math/rand.  A draw holds the outcomes of the calls randomHandler makes: *)
(* dice the three rand.Intn(6), num rand.Intn(1000), a and e the two       *)
(* rand.Int63() of the uuid, b, c, d its three rand.Int31()&0xffff.  An    *)
(* Int63 is written as its four 16-bit limbs, most significant first (the  *)
(* first below 2^15).                                                      *)
(***************************************************************************)
\* outcomes of rand.Intn(1000) the model draws: both sides of the 950 threshold
RandomNumbers == {0, 950, 951}

Int63Samples ==
    {<<0, 0, 0, 0>>, <<0, 0, 65535, 65535>>, <<0, 1, 0, 0>>,
     <<0, 65535, 65535, 65535>>, <<1, 0, 0, 0>>, <<32767, 65535, 65535, 65535>>}

Int16Samples == {0, 1, 65535}

\* rand.Intn(n): an integer of the half-open interval [0, n)
Intn(n) == 0..(n - 1)

colors ==
    <<"#FF6B6B", "#4ECDC4", "#45B7D1", "#96CEB4", "#FFEAA7", "#DDA0DD", "#98D8C8",
      "#F7DC6F">>

\* the five quotes, named by their first characters
quotes == <<"U+4EE3 U+7801", "U+5148 U+8BA9", "U+7B80 U+5355", "U+8FC7 U+65E9", "U+597D U+7684">>

BaseDraw ==
    [dice |-> <<0, 0, 0>>, num |-> 0, a |-> <<0, 0, 0, 0>>, b |-> 0, c |-> 0,
     d |-> 0, e |-> <<0, 0, 0, 0>>, color |-> 0, quote |-> 0, lucky |-> 0,
     api |-> 0, cache |-> 0]

\* the draws of Spec and SpecSeq: both sides of the 950 threshold
Draws == {[BaseDraw EXCEPT !.num = n] : n \in RandomNumbers}

\* the draws of SpecData: also every roll of the dice, values of every
\* length for the five groups of the uuid, and every outcome of the number,
\* of the two indices and of the lucky number
DataDraws ==
    Draws
        \cup {[BaseDraw EXCEPT !.dice = x] : x \in [1..3 -> 0..5]}
        \cup {[BaseDraw EXCEPT !.a = x, !.e = y] : x, y \in Int63Samples}
        \cup {[BaseDraw EXCEPT !.b = x, !.c = y, !.d = z] : x, y, z \in Int16Samples}
        \cup {[BaseDraw EXCEPT !.num = n] : n \in Intn(1000)}
        \cup {[BaseDraw EXCEPT !.color = x, !.quote = y] :
                  x \in Intn(Len(colors)), y \in Intn(Len(quotes))}
        \cup {[BaseDraw EXCEPT !.lucky = x] : x \in Intn(100)}

\* (mutant) one more than the longest sleep
SleepDrawsLonger(n) == {0, n}

\* the outcomes of rand.Intn(n) the model draws for a sleep of that many
\* milliseconds: the shortest and the longest
SleepDraws(n) == {0, n - 1}

\* the draws of SpecLive: both sides of the 950 threshold, with the shortest
\* and the longest sleeps of the two sub-spans
LiveDraws ==
    {[BaseDraw EXCEPT !.num = n, !.api = x, !.cache = y] :
        n \in {0, 951}, x \in SleepDraws(100), y \in SleepDraws(10)}

HexDigits ==
    <<"0", "1", "2", "3", "4", "5", "6", "7", "8", "9", "a", "b", "c", "d", "e", "f">>

\* the four hexadecimal digits of one limb
Hex4(l) ==
    <<HexDigits[((l \div 4096) % 16) + 1], HexDigits[((l \div 256) % 16) + 1],
      HexDigits[((l \div 16) % 16) + 1], HexDigits[(l % 16) + 1]>>

RECURSIVE HexAll(_)
HexAll(limbs) == IF limbs = <<>> THEN <<>> ELSE Hex4(Head(limbs)) \o HexAll(Tail(limbs))

\* the digits from the first one that is not "0", the last digit at least
StripZeros(s) ==
    LET first == CHOOSE i \in 1..Len(s) :
                     /\ i = Len(s) \/ s[i] /= "0"
                     /\ \A k \in 1..(i - 1) : s[k] = "0"
    IN SubSeq(s, first, Len(s))

\* zeros in front, up to the width
PadZeros(s, width) ==
    IF Len(s) >= width THEN s ELSE [i \in 1..(width - Len(s)) |-> "0"] \o s

\* the verb %0<width>x: the digits of the value, padded with zeros up to the
\* width; a width never shortens a longer value
FormatHex(limbs, width) ==
    CHOOSE t \in {PadZeros(StripZeros(h), width) : h \in {HexAll(limbs)}} : TRUE

\* the uuid: Sprintf("%08x-%04x-%04x-%04x-%012x", a, b, c, d, e)
FormatUUID(dr) ==
    FormatHex(dr.a, 8) \o <<"-">> \o FormatHex(<<dr.b>>, 4) \o <<"-">>
        \o FormatHex(<<dr.c>>, 4) \o <<"-">> \o FormatHex(<<dr.d>>, 4) \o <<"-">>
        \o FormatHex(dr.e, 12)

\* (mutant) the index taken as a position counted from 1
IndexFromOne(list, i) == IF i \in 1..Len(list) THEN list[i] ELSE "panic"

\* list[i] of a Go slice: positions count from 0, and an index outside the
\* slice panics
Index(list, i) == IF i \in 0..(Len(list) - 1) THEN list[i + 1] ELSE "panic"

\* LuckyNumber: rand.Intn(100) + 1
Lucky(x) == x + 1

\* (mutant) the dice numbered from 0
DieFromZero(x) == x

\* one die: rand.Intn(6) + 1
Die(x) == x + 1

\* the dice slice: make([]int, 3), each element set in the loop
RollDice(xs) == [i \in 1..3 |-> Die(xs[i])]

(***************************************************************************)
(* The process environment and the clock.                                  *)
(***************************************************************************)
Unset == "<unset>"

PortValues == {Unset, "", "9090"}

AppEnvValues == {Unset, "", "production"}

EnvValues(k) == IF k = "PORT" THEN PortValues ELSE AppEnvValues

\* os.Getenv: the value, the empty string for a variable that is not set
Getenv(e, k) == IF e[k] = Unset THEN "" ELSE e[k]

\* main: if port == "" { port = "8000" }
portOrDefault(p) == IF p = "" THEN "8000" ELSE p

\* (mutant) no default environment
envOrEmpty(e) == e

\* statusHandler: if env == "" { env = "development" }
envOrDefault(e) == IF e = "" THEN "development" ELSE e

\* the readings of the monotonic clock at which something happens, in half
\* seconds since the program was loaded: 0s, 0.5s, 1s, 1.5s, 1min, 1h
Readings == {0, 1, 2, 3, 120, 7200}

\* time.Since(t) at the clock reading n (monotonic), in half seconds
Since(t, n) == n - t

\* Duration.Round(time.Second) of a duration that is not negative: whole seconds,
\* a half rounds away from zero
RoundSecond(d) == (d + 1) \div 2

\* Duration.String() of whole seconds: "0s", "59s", "1m0s", "1h0m0s"
DurationString(s) ==
    LET h   == s \div 3600
        m   == (s % 3600) \div 60
        sec == s % 60
    IN IF h > 0 THEN <<h, "h", m, "m", sec, "s">>
       ELSE IF m > 0 THEN <<m, "m", sec, "s">>
       ELSE <<sec, "s">>

\* the uptime a handler reports at the clock reading n
Uptime(t, n) == DurationString(RoundSecond(Since(t, n)))

(***************************************************************************)
(* main: the routes each revision registers, pattern -> handler.           *)
(***************************************************************************)
BaseRoutes ==
    {<<PHealth, "healthHandler">>, <<PVersion, "versionHandler">>,
     <<PHello, "helloHandler">>, <<RootPath, "rootHandler">>}

V20Routes ==
    BaseRoutes \cup {<<PStatus, "statusHandler">>, <<PFeature, "featureHandler">>}

V21Routes ==
    V20Routes \cup {<<PMetrics, "metricsHandler">>, <<PEcho, "echoHandler">>}

V24Routes ==
    V21Routes \cup {<<PInfo, "infoHandler">>, <<PTime, "timeHandler">>,
                    <<PRandom, "randomHandler">>}

Routes(v) ==
    CASE v = "v1.0" -> BaseRoutes
      [] v = "v2.0" -> V20Routes
      [] v = "v2.1" -> V21Routes
      [] OTHER      -> V24Routes

Patterns(m) == {e[1] : e \in m}

HandlerOf(m, pat) == (CHOOSE e \in m : e[1] = pat)[2]

(***************************************************************************)
(* net/http ServeMux, as main uses it (patterns without a trailing slash   *)
(* match one path exactly, "/" matches every other path).  Before matching *)
(* the mux cleans the path (cleanPath: empty, "." and ".." segments go, a  *)
(* trailing slash stays) and answers a request whose path differs from its *)
(* cleaned form with a redirect to the cleaned path, except for CONNECT.   *)
(***************************************************************************)
RECURSIVE CleanSegs(_, _)
CleanSegs(segs, acc) ==
    IF segs = <<>> THEN acc
    ELSE LET s == Head(segs) IN
         CASE s = "" \/ s = "." -> CleanSegs(Tail(segs), acc)
           [] s = ".." ->
                CleanSegs(Tail(segs),
                          IF acc = <<>> THEN acc ELSE SubSeq(acc, 1, Len(acc) - 1))
           [] OTHER -> CleanSegs(Tail(segs), Append(acc, s))

cleanPath(p) ==
    LET np == CleanSegs(p, <<>>) IN
    IF np = <<>> THEN RootPath
    ELSE IF p[Len(p)] = "" THEN Append(np, "") ELSE np

\* the pattern the mux selects for a (cleaned) path
muxMatch(m, p) == IF p \in Patterns(m) THEN p ELSE RootPath

\* what the mux does with a request: redirect it, or call a handler
muxHandler(m, method, p) ==
    IF method /= "CONNECT" /\ cleanPath(p) /= p
    THEN [kind |-> "redirect", handler |-> "RedirectHandler", to |-> cleanPath(p)]
    ELSE [kind |-> "handler", handler |-> HandlerOf(m, muxMatch(m, p)), to |-> p]

(***************************************************************************)
(* http.ResponseWriter.  hdr is the Content-Type held in the header map;   *)
(* WriteHeader sends the status line with the headers as they are then     *)
(* (ctype); a Write before any WriteHeader sends status 200 first.         *)
(***************************************************************************)
NoBody == [none |-> TRUE]

NewWriter ==
    [hdr |-> "", wroteHeader |-> FALSE, status |-> 0, ctype |-> "",
     nWriteHeader |-> 0, kind |-> "none", body |-> NoBody]

SetContentType(w, ct) == [w EXCEPT !.hdr = ct]

WriteHeader(w, status) ==
    IF w.wroteHeader
    THEN [w EXCEPT !.nWriteHeader = @ + 1]
    ELSE [w EXCEPT !.wroteHeader = TRUE, !.status = status, !.ctype = w.hdr,
                   !.nWriteHeader = @ + 1]

Write(w, kind, body) ==
    LET w1 == IF w.wroteHeader THEN w
              ELSE [w EXCEPT !.wroteHeader = TRUE, !.status = 200, !.ctype = w.hdr]
    IN [w1 EXCEPT !.kind = kind, !.body = body]

\* the fields tagged omitempty in the struct a handler encodes:
\* Response.Message, and TraceID in the v2.5 structs that have it
OmitEmpty(h) == IF h = "healthHandler" THEN {"message"} ELSE {"traceId"}

\* the fields that hold free text, as a sequence of tokens
TextFields == {"message", "echo"}

\* the zero value of a string field
EmptyString(f) == IF f \in TextFields THEN <<>> ELSE ""

\* encoding/json on a string: a byte that is no valid UTF-8 is written as the
\* replacement character U+FFFD, every other character reads back as itself
JsonString(s) == [i \in 1..Len(s) |-> IF s[i] = "xFF" THEN "U+FFFD" ELSE s[i]]

\* encoding/json on a response struct: a field tagged omitempty is left out
\* when it holds the empty string
JsonEncode(data, omit) ==
    LET keep == {f \in DOMAIN data : ~(f \in omit /\ data[f] = EmptyString(f))}
    IN [f \in keep |-> IF f \in TextFields THEN JsonString(data[f]) ELSE data[f]]

\* (mutant) the status line is written before the header is set
writeJSONHeaderLate(w, status, data, omit) ==
    Write(SetContentType(WriteHeader(w, status), "application/json"),
          "json", JsonEncode(data, omit))

\* writeJSON: set Content-Type, WriteHeader(status), encode the data
writeJSON(w, status, data, omit) ==
    Write(WriteHeader(SetContentType(w, "application/json"), status),
          "json", JsonEncode(data, omit))

\* http.NotFound
NotFound(w) ==
    Write(WriteHeader(SetContentType(w, "text/plain; charset=utf-8"), 404),
          "text", [text |-> "404 page not found"])

\* http.RedirectHandler(url, StatusMovedPermanently)
Redirect(w, to) ==
    Write(WriteHeader(SetContentType(w, "text/html; charset=utf-8"), 301),
          "redirect", [location |-> to])

(***************************************************************************)
(* State of one request.                                                   *)
(***************************************************************************)
\* trace.SpanContext: the zero value is not valid
SpanContext(tid, sid) == [traceID |-> tid, spanID |-> sid]

NoSpan == SpanContext("", "")

IsValid(sc) == sc.traceID /= "" /\ sc.spanID /= ""

IdleReq ==
    [pc |-> "idle", path |-> RootPath, method |-> "GET", query |-> NoQuery,
     handler |-> "none", traceId |-> "", ctx |-> NoSpan, seen |-> 0, w |-> NewWriter,
     added |-> 0, acc |-> {}, logged |-> -1,
     spans |-> {}, spanStatus |-> "Unset", num |-> -1, errLogged |-> FALSE,
     events |-> <<>>, deferred |-> <<>>]

\* the source's values of Version, BuildTime, GitCommit
Version(v) ==
    CASE v = "v1.0" -> "1.0.0"
      [] v = "v2.0" -> "2.0.0-dev"
      [] v = "v2.1" -> "2.1.0-dev"
      [] v = "v2.4" -> "2.4.0-dev"
      [] OTHER      -> "2.5.0-dev"

SourceBuild(v) ==
    [Version |-> Version(v), BuildTime |-> "unknown", GitCommit |-> "unknown"]

\* the values the Makefile's LDFLAGS link in (-X main.Version=$(VERSION) ...)
LinkedBuild ==
    [Version |-> "1.0.0", BuildTime |-> "2024-01-01T00:00:00Z", GitCommit |-> "abc1234"]

Builds(v) == {SourceBuild(v), LinkedBuild}

\* the package variables once the program is loaded; build is what differs
\* between the specifications
Loaded(b) ==
    /\ build = b
    /\ env = [PORT |-> Unset, APP_ENV |-> Unset]
    /\ now = 0
    /\ startTime = now
    /\ port = ""
    /\ mainPc = IF rev = "v2.5" THEN "initTracer" ELSE "routes"
    /\ provider = "noop"
    /\ tracer = "nil"
    /\ warnings = 0
    /\ mux = {}
    /\ requestCount = 0
    /\ req = [r \in Slots |-> IdleReq]

Init ==
    /\ rev \in Revisions
    /\ Loaded(SourceBuild(rev))

(***************************************************************************)
(* main.  Only v2.5 initialises tracing; initTracer either returns a       *)
(* provider (having installed it as the global one) or an error (having    *)
(* installed nothing).                                                     *)
(***************************************************************************)
\* (mutant) main gives up when initTracer fails
PcAfterInitFatal(err) == IF err THEN "exited" ELSE "routes"

\* (mutant) the tracer is assigned after the if, on both branches
TracerAfterInitAlways(err) == "demo-app"

\* main's next step after initTracer returned: both branches of its
\* if err != nil fall through to the route registration
PcAfterInit(err) == "routes"

\* the global tracer after initTracer returned: assigned only in the else branch
TracerAfterInit(err) == IF err THEN "nil" ELSE "demo-app"

\* what no step of main or of a handler assigns
Fixed == <<rev, build, env, now, startTime>>

InitTracerOk ==
    /\ mainPc = "initTracer"
    /\ provider' = "sdk"
    /\ tracer' = TracerAfterInit(FALSE)
    /\ mainPc' = PcAfterInit(FALSE)
    /\ UNCHANGED <<Fixed, port, warnings, mux, requestCount, req>>

InitTracerErr ==
    /\ mainPc = "initTracer"
    /\ warnings' = warnings + 1
    /\ tracer' = TracerAfterInit(TRUE)
    /\ mainPc' = PcAfterInit(TRUE)
    /\ UNCHANGED <<Fixed, port, provider, mux, requestCount, req>>

\* main reads PORT, then registers the routes
RegisterRoutes ==
    /\ mainPc = "routes"
    /\ port' = portOrDefault(Getenv(env, "PORT"))
    /\ mux' = Routes(rev)
    /\ mainPc' = "listen"
    /\ UNCHANGED <<Fixed, provider, tracer, warnings, requestCount, req>>

\* http.ListenAndServe(":"+port, ...) binds the port and serves
ListenAndServe ==
    /\ mainPc = "listen"
    /\ mainPc' = "serving"
    /\ UNCHANGED <<Fixed, port, provider, tracer, warnings, mux, requestCount, req>>

\* the tracer provider once log.Fatal has ended the process: log.Fatal calls
\* os.Exit(1), which does not run the functions main has deferred, so the
\* provider main deferred tp.Shutdown for is left as it was
ProviderAfterFatal(p) == p

\* http.ListenAndServe returns an error (the port cannot be bound): log.Fatal
ListenFail ==
    /\ mainPc = "listen"
    /\ mainPc' = "exited"
    /\ provider' = ProviderAfterFatal(provider)
    /\ UNCHANGED <<Fixed, port, tracer, warnings, mux, requestCount, req>>

(***************************************************************************)
(* The handlers.  Response fields whose value comes from the wall clock's  *)
(* date, the runtime's memory statistics or the request headers are kept   *)
(* as tokens.                                                              *)
(***************************************************************************)
\* the handlers that call atomic.AddInt64(&requestCount, 1)
CountingHandlers ==
    {"rootHandler", "featureHandler", "metricsHandler", "echoHandler",
     "infoHandler", "timeHandler", "randomHandler"}

\* (mutant) featureHandler as it was in v2.0, without the increment
CountedButFeature(v, h) ==
    v \in CounterRevisions /\ h \in CountingHandlers \ {"featureHandler"}

Counted(v, h) == v \in CounterRevisions /\ h \in CountingHandlers

\* the handlers that pass the bare variable requestCount to log.Printf
PlainReads(v, h) == v = "v2.5" /\ h \in {"rootHandler", "metricsHandler"}

\* the response structs that carry a TraceID field
Traced(v, h) ==
    v = "v2.5" /\ h \in {"helloHandler", "statusHandler", "echoHandler", "randomHandler"}

\* (mutant) a read-modify-write that is not atomic: the sum of a value read
\* earlier is stored, so an increment made in between is lost
AddInt64Stale(cur, stale, delta) == stale + delta

\* (mutant) the wrong sign
AddInt64Down(cur, stale, delta) == cur - delta

\* atomic.AddInt64: the addition applies to the value the counter holds now,
\* not to the value (stale) it held when the handler's goroutine started
AddInt64(cur, stale, delta) == cur + delta

\* (mutant) the value the counter had before the handler's own increment
LoadInt64BeforeAdd(cur) == cur - 1

LoadInt64(cur) == cur

\* a read of requestCount that is not atomic: when another goroutine is about
\* to write the counter the read races with it and its result is not defined
PlainRead(cur, racing) == IF racing THEN 0..MaxReq ELSE {cur}

\* (mutant) rootHandler without its path test
IsRootPathAny(p) == TRUE

\* rootHandler's test r.URL.Path != "/"
IsRootPath(p) == p = RootPath

\* (mutant) echoHandler refuses the methods its documentation does not list
StatusForMethodCheck(h, method, num) ==
    IF h = "echoHandler" /\ method \notin {"GET", "POST"} THEN 405 ELSE 200

\* (mutant) randomHandler answers its simulated error with a 500
StatusForRandomError(h, method, num) ==
    IF h = "randomHandler" /\ num > 950 THEN 500 ELSE 200

\* the status every handler passes to writeJSON: http.StatusOK, whatever the
\* request's method and whatever number randomHandler drew
StatusFor(h, method, num) == 200

\* `if tracer != nil`
TracerOn(t) == t /= "nil"

\* trace IDs the otelhttp wrapper gives the requests' server spans
TraceIDs == <<"trace-1", "trace-2", "trace-3", "trace-4">>

\* getTraceID: the trace ID of the context's span when its span context is
\* valid, the empty string when it is not
getTraceID(rq) == IF IsValid(rq.ctx) THEN rq.ctx.traceID ELSE ""

\* the server span otelhttp.NewHandler starts: recording, with a valid span
\* context, only when initTracer installed the SDK provider
ServerTraceID(v, prov, r) == IF v = "v2.5" /\ prov = "sdk" THEN TraceIDs[r] ELSE ""

\* the span context r.Context() carries into the handler
ServerSpan(tid) == IF tid = "" THEN NoSpan ELSE SpanContext(tid, "demo-app")

\* (mutant) every span the tracer starts is the root of a trace of its own
tracerStartRoot(parent, name) == SpanContext("trace-of-" \o name, name)

\* tracer.Start(ctx, name): a child of the context's span, in the same trace;
\* the root of a new trace when the context has no valid span
tracerStart(parent, name) ==
    IF IsValid(parent) THEN SpanContext(parent.traceID, name)
    ELSE SpanContext("trace-of-" \o name, name)

\* one thing a handler does with a span or with the clock: op is "start",
\* "use" (SetAttributes, SetStatus, RecordError), "sleep" or "end"
Ev(op, span, ms) == [op |-> op, span |-> span, ms |-> ms]

\* the calls of End that the handler's return runs: the deferred calls, the
\* last deferred first
RECURSIVE RunDeferred(_)
RunDeferred(ds) ==
    IF ds = <<>> THEN <<>> ELSE <<Ev("end", Head(ds), 0)>> \o RunDeferred(Tail(ds))

\* request rq with its response written and its handler returned
Done(rq, w) ==
    [rq EXCEPT !.pc = "done", !.seen = 0, !.w = w,
               !.events = @ \o RunDeferred(rq.deferred), !.deferred = <<>>]

\* the server accepts request r, one of Q; the otelhttp wrapper (v2.5) starts
\* its server span and the mux dispatches it: a redirect is answered at once,
\* a handler is called in the request's goroutine
Serve(r, Q) ==
    /\ mainPc = "serving"
    /\ req[r].pc = "idle"
    /\ \A s \in 1..(r - 1) : req[s].pc /= "idle"
    /\ \E q \in Q :
         LET m  == q[1]
             p  == q[2]
             d  == muxHandler(mux, m, p)
             t  == ServerTraceID(rev, provider, r)
             rq == [req[r] EXCEPT !.path = p, !.method = m, !.query = q[3],
                                  !.handler = d.handler,
                                  !.seen = requestCount,
                                  !.traceId = t, !.ctx = ServerSpan(t)]
         IN req' = [req EXCEPT ![r] =
                IF d.kind = "redirect"
                THEN Done(rq, Redirect(rq.w, d.to))
                ELSE [rq EXCEPT !.pc = "handler"]]
    /\ UNCHANGED <<Fixed, port, mainPc, provider, tracer, warnings, mux, requestCount>>

ServeHTTP(r) == Serve(r, Requests)

At(r, h, pc) == req[r].handler = h /\ req[r].pc = pc

\* the v2.5 handlers' `if tracer != nil`
Tracing == rev = "v2.5" /\ TracerOn(tracer)

\* ctx, span = tracer.Start(ctx, name); defer span.End()
StartSpan(rq, name) ==
    IF Tracing
    THEN [rq EXCEPT !.spans = @ \cup {name},
                    !.ctx = tracerStart(@, name),
                    !.events = Append(@, Ev("start", name, 0)),
                    !.deferred = <<name>> \o @]
    ELSE rq

\* span.SetAttributes(...), span.SetStatus(...), span.RecordError(...)
UseSpan(rq, name) ==
    IF Tracing THEN [rq EXCEPT !.events = Append(@, Ev("use", name, 0))] ELSE rq

\* (mutant) the sub-span is never ended
SubSpanNoEnd(rq, name, ms) ==
    IF Tracing
    THEN [rq EXCEPT !.spans = @ \cup {name},
                    !.events = @ \o <<Ev("start", name, 0), Ev("sleep", name, ms),
                                      Ev("use", name, 0)>>]
    ELSE rq

\* _, s := tracer.Start(ctx, name); time.Sleep(ms); s.SetAttributes(...);
\* s.End(): the handler's ctx stays the one of its own span
SubSpan(rq, name, ms) ==
    IF Tracing
    THEN [rq EXCEPT !.spans = @ \cup {name},
                    !.events = @ \o <<Ev("start", name, 0), Ev("sleep", name, ms),
                                      Ev("use", name, 0), Ev("end", name, 0)>>]
    ELSE rq

\* helloHandler's time.Sleep, outside its `if tracer != nil`: v2.5 only
Sleep(rq, ms) ==
    IF rev = "v2.5" THEN [rq EXCEPT !.events = Append(@, Ev("sleep", "", ms))] ELSE rq

\* atomic.AddInt64(&requestCount, 1) by request rq: the counter's new value
Incremented(rq) == AddInt64(requestCount, rq.seen, 1)

\* request rq after its atomic.AddInt64
AfterAdd(rq) ==
    [rq EXCEPT !.added = @ + 1, !.acc = @ \cup {"atomic.AddInt64"}]

\* the struct with the TraceID field of the v2.5 response structs
WithTraceID(h, rq, data) ==
    IF Traced(rev, h) THEN data @@ [traceId |-> getTraceID(rq)] ELSE data

\* the handler's writeJSON(w, http.StatusOK, response)
JSON(rq, data) ==
    Done(rq, writeJSON(rq.w, StatusFor(rq.handler, rq.method, rq.num),
                       WithTraceID(rq.handler, rq, data), OmitEmpty(rq.handler)))

\* rootHandler's page: Content-Type, then Fprintf(w, page, Version)
RootPage(rq) ==
    Done(rq, Write(SetContentType(rq.w, "text/html; charset=utf-8"),
                   "html", [version |-> build.Version]))

Others == <<Fixed, port, mainPc, provider, tracer, warnings, mux>>

\* (mutant) every handler's return raises the counter
UncountedAdds(r, rq) ==
    /\ req' = [req EXCEPT ![r] = rq]
    /\ requestCount' = requestCount + 1
    /\ UNCHANGED Others

\* a handler that leaves the counter alone
Uncounted(r, rq) ==
    /\ req' = [req EXCEPT ![r] = rq]
    /\ UNCHANGED <<Others, requestCount>>

\* a handler whose first statement is the increment
Counting(r, rq) ==
    /\ requestCount' = IF Counted(rev, req[r].handler) THEN Incremented(req[r])
                       ELSE requestCount
    /\ req' = [req EXCEPT ![r] = IF Counted(rev, req[r].handler) THEN AfterAdd(rq)
                                 ELSE rq]
    /\ UNCHANGED Others

\* rootHandler: the v2.5 span, 404 for any path but "/", the increment, then
\* (v2.5) the log line that reads the counter, else the page
rootHandler(r) ==
    /\ At(r, "rootHandler", "handler")
    /\ LET rq == UseSpan(StartSpan(req[r], "rootHandler"), "rootHandler") IN
       IF ~IsRootPath(rq.path)
       THEN Uncounted(r, Done(rq, NotFound(rq.w)))
       ELSE Counting(r, IF PlainReads(rev, "rootHandler") THEN [rq EXCEPT !.pc = "log"]
                        ELSE RootPage(rq))

\* another goroutine's next step writes the counter
Racing(r) ==
    \E s \in Slots \ {r} :
        /\ req[s].pc = "handler"
        /\ Counted(rev, req[s].handler)
        /\ req[s].handler = "rootHandler" => IsRootPath(req[s].path)

\* request rq after log.Printf(..., requestCount, ...) has read the counter as v
AfterPlainRead(rq, v) == [rq EXCEPT !.logged = v, !.acc = @ \cup {"plain read"}]

\* the v2.5 rootHandler's log line and its page
rootLog(r) ==
    /\ At(r, "rootHandler", "log")
    /\ \E v \in PlainRead(requestCount, Racing(r)) :
         Uncounted(r, RootPage(AfterPlainRead(req[r], v)))

\* (mutant) the status reflects the load
HealthStatusUnderLoad(method, count, t) == IF count > 0 THEN "busy" ELSE "healthy"

\* healthHandler's Status: the literal, whatever the request's method, the
\* counter and the tracer are
HealthStatus(method, count, t) == "healthy"

healthHandler(r) ==
    /\ At(r, "healthHandler", "handler")
    /\ Uncounted(r, JSON(req[r], [status |-> HealthStatus(req[r].method, requestCount,
                                                          tracer),
                                  message |-> <<>>, timestamp |-> "now"]))

versionHandler(r) ==
    /\ At(r, "versionHandler", "handler")
    /\ Uncounted(r, JSON(req[r], [version |-> build.Version,
                                  buildTime |-> build.BuildTime,
                                  gitCommit |-> build.GitCommit]))

\* the text helloHandler's format has after the %s verb
HelloSuffix(v) ==
    CASE v = "v1.0" -> "! U+1F44B"
      [] v = "v2.5" -> "! U+1F44B (v2.5 with OpenTelemetry)"
      [] OTHER      -> "! U+1F44B (v2.0)"

\* (mutant) the name is never taken from the request
HelloNameWorld(name) == <<"World">>

\* helloHandler: if name == "" { name = "World" }
HelloName(name) == IF name = <<>> THEN <<"World">> ELSE name

helloHandler(r) ==
    /\ At(r, "helloHandler", "handler")
    /\ \E ms \in SleepDraws(50) :
         LET name == HelloName(QueryGet(req[r].query, "name"))
             span == "helloHandler.processGreeting"
             rq   == Sleep(UseSpan(StartSpan(req[r], span), span), ms)
         IN Uncounted(r, JSON(rq, [message |-> Sprintf("Hello, ", name, HelloSuffix(rev)),
                                   timestamp |-> "now"]))

\* (mutant) statusHandler restarts the uptime
StartAfterStatusReset(t, n) == n

\* startTime after statusHandler has run: no handler assigns it
StartAfterStatus(t, n) == t

statusHandler(r) ==
    /\ At(r, "statusHandler", "handler")
    /\ req' = [req EXCEPT ![r] =
           JSON(StartSpan(req[r], "statusHandler.getStatus"),
                [status |-> "running",
                 environment |-> envOrDefault(Getenv(env, "APP_ENV")),
                 uptime |-> Uptime(startTime, now), timestamp |-> "now"])]
    /\ startTime' = StartAfterStatus(startTime, now)
    /\ UNCHANGED <<rev, build, env, now, port, mainPc, provider, tracer, warnings,
                   mux, requestCount>>

\* (mutant) the literal of an earlier revision instead of the variable
FeatureVersionLiteral(b) == "2.1.0-dev"

\* featureHandler's Version: the package variable
FeatureVersion(b) == b.Version

\* featureHandler: v2.0 has no counter, the later revisions increment first
featureHandler(r) ==
    /\ At(r, "featureHandler", "handler")
    /\ Counting(r, JSON(req[r], [feature |-> "feature", description |-> "description",
                                 version |-> FeatureVersion(build),
                                 timestamp |-> "now"]))

\* metricsHandler: the increment; the counter is loaded later, for the response
metricsHandler(r) ==
    /\ At(r, "metricsHandler", "handler")
    /\ Counting(r, [req[r] EXCEPT !.pc = IF PlainReads(rev, "metricsHandler")
                                         THEN "log" ELSE "load"])

\* the v2.5 metricsHandler's log line
metricsLog(r) ==
    /\ At(r, "metricsHandler", "log")
    /\ \E v \in PlainRead(requestCount, Racing(r)) :
         Uncounted(r, [AfterPlainRead(req[r], v) EXCEPT !.pc = "load"])

\* (mutant) only the goroutines that wait to enter their handler are counted
NumGoroutineWaiting(rs) == Cardinality({s \in DOMAIN rs : rs[s].pc = "handler"})

\* runtime.NumGoroutine(): main's goroutine and one for each request whose
\* handler has not returned, the caller's own among them
NumGoroutine(rs) ==
    1 + Cardinality({s \in DOMAIN rs : rs[s].pc \notin {"idle", "done"}})

\* metricsHandler's response: RequestCount is atomic.LoadInt64(&requestCount)
metricsLoad(r) ==
    /\ At(r, "metricsHandler", "load")
    /\ Uncounted(r, JSON([req[r] EXCEPT !.acc = @ \cup {"atomic.LoadInt64"}],
                         [requestCount |-> LoadInt64(requestCount),
                          memoryUsage |-> "MB", goRoutines |-> NumGoroutine(req),
                          uptime |-> Uptime(startTime, now),
                          timestamp |-> "now"]))

\* the text echoHandler gives when the request has no message
EchoDefault(v) ==
    IF v = "v2.5" THEN "Hello from Echo API with OpenTelemetry!"
    ELSE "Hello from Echo API!"

\* echoHandler: if echo == "" { echo = <the default> }
EchoText(v, message) == IF message = <<>> THEN <<EchoDefault(v)>> ELSE message

echoHandler(r) ==
    /\ At(r, "echoHandler", "handler")
    /\ \E ms \in SleepDraws(30) :
         LET span == "echoHandler.processRequest"
             rq   == SubSpan(UseSpan(StartSpan(req[r], span), span),
                             "database.query", ms)
         IN Counting(r, JSON(rq, [echo |-> EchoText(rev, QueryGet(req[r].query,
                                                                  "message")),
                                  headers |-> "headers",
                                  method |-> req[r].method, path |-> req[r].path,
                                  timestamp |-> "now"]))

infoHandler(r) ==
    /\ At(r, "infoHandler", "handler")
    /\ Counting(r, JSON(req[r], [appName |-> "Demo App", version |-> build.Version,
                                 description |-> "description",
                                 author |-> "CI/CD Platform Team", goVersion |-> "go",
                                 os |-> "os", arch |-> "arch", timestamp |-> "now"]))

\* readings of the wall clock, time.Now(): the seconds since 1970-01-01
\* 00:00:00 UTC and the offset of the server's zone, time.Local, in seconds.
\* Days on both sides of a weekend, of a year's end and of a leap day, and
\* instants at which the local date differs from the UTC date.
Clocks ==
    [unix : {1, 1609502400, 1709251199, 1735516800, 1793489400, 1793534400,
             1793579400},
     offset : {0, 28800, -18000}]

\* the date and the time of day at sec seconds after 1970-01-01 00:00:00, in
\* the proleptic Gregorian calendar: <<year, month, day, hour, minute, second>>
FormatTime(sec) ==
    LET days == sec \div 86400
        rest == sec % 86400
        z    == days + 719468
        era  == z \div 146097
        doe  == z - era * 146097
        yoe  == (doe - doe \div 1460 + doe \div 36524 - doe \div 146096) \div 365
        doy  == doe - (365 * yoe + yoe \div 4 - yoe \div 100)
        mp   == (5 * doy + 2) \div 153
        d    == doy - (153 * mp + 2) \div 5 + 1
        m    == IF mp < 10 THEN mp + 3 ELSE mp - 9
        y    == yoe + era * 400 + (IF m <= 2 THEN 1 ELSE 0)
    IN <<y, m, d, rest \div 3600, (rest % 3600) \div 60, rest % 60>>

\* Time.Weekday() of the day `days` days after 1970-01-01 (a Thursday), and
\* its String(): Sunday is day 0
Weekday(days) ==
    <<"Sunday", "Monday", "Tuesday", "Wednesday", "Thursday", "Friday",
      "Saturday">>[((days + 4) % 7) + 1]

\* the week of Time.ISOWeek(): the day is moved to the Thursday of its week
\* (Monday to Sunday), and the week is that Thursday's day of the year,
\* counted from 0, divided by 7, plus 1
ISOWeek(days) ==
    LET wd   == (days + 4) % 7
        thu  == days + (IF wd = 0 THEN -3 ELSE 4 - wd)
        y    == FormatTime(thu * 86400)[1]
        jan1 == 365 * (y - 1970) + (y - 1969) \div 4 - (y - 1901) \div 100
                    + (y - 1601) \div 400
    IN (thu - jan1) \div 7 + 1

\* (mutant) the timestamp is taken from a second reading of the clock
ReadingAgain(t, later) == later

\* the instant a field is computed from: timeHandler reads the clock once,
\* now := time.Now(), and computes every field from now
Reading(t, later) == t

\* timeHandler with its clock reading taken from W: the increment, the
\* reading, the fields in the server's zone, the timestamp in UTC
Time(r, W) ==
    /\ At(r, "timeHandler", "handler")
    /\ \E c \in W :
         LET local     == c.unix + c.offset
             dayOfWeek == Weekday(local \div 86400)
             response  ==
                 [serverTime |-> FormatTime(local), timezone |-> "Local",
                  unixTime |-> c.unix, dayOfWeek |-> dayOfWeek,
                  weekOfYear |-> ISOWeek(local \div 86400),
                  isWeekend |-> dayOfWeek = "Saturday" \/ dayOfWeek = "Sunday",
                  timestamp |-> FormatTime(Reading(c.unix, c.unix + 1)) \o <<"Z">>]
         IN \E rq \in {JSON(req[r], response)} : Counting(r, rq)

\* the reading of Spec, SpecSeq and SpecLive: a Saturday evening in UTC
timeHandler(r) == Time(r, {[unix |-> 1793489400, offset |-> 0]})

\* randomHandler with its draw taken from D: the increment, the spans, the
\* dice, the number, the simulated error (recorded on the handler's span and
\* in the log), the response
Random(r, D) ==
    /\ At(r, "randomHandler", "handler")
    /\ \E dr \in D :
         LET n   == dr.num
             rq0 == SubSpan(SubSpan(StartSpan(req[r], "randomHandler.generateData"),
                                    "external.api.call", dr.api),
                            "cache.lookup", dr.cache)
             rq1 == [rq0 EXCEPT !.num = n]
             rq2 == IF rev = "v2.5" /\ n > 950
                    THEN [UseSpan(rq1, rq1.ctx.spanID)
                             EXCEPT !.errLogged = TRUE,
                                    !.spanStatus = IF TracerOn(tracer) THEN "Error"
                                                   ELSE @]
                    ELSE rq1
             response == [number |-> n, uuid |-> FormatUUID(dr),
                          color |-> Index(colors, dr.color),
                          quote |-> Index(quotes, dr.quote),
                          luckyNumber |-> Lucky(dr.lucky),
                          dice |-> RollDice(dr.dice),
                          timestamp |-> "now"]
         IN \E rq \in {JSON(rq2, response)} : Counting(r, rq)

randomHandler(r) == Random(r, Draws)

Next ==
    \/ InitTracerOk
    \/ InitTracerErr
    \/ RegisterRoutes
    \/ ListenAndServe
    \/ ListenFail
    \/ \E r \in Slots :
         \/ ServeHTTP(r)
         \/ rootHandler(r)
         \/ rootLog(r)
         \/ healthHandler(r)
         \/ versionHandler(r)
         \/ helloHandler(r)
         \/ statusHandler(r)
         \/ featureHandler(r)
         \/ metricsHandler(r)
         \/ metricsLog(r)
         \/ metricsLoad(r)
         \/ echoHandler(r)
         \/ infoHandler(r)
         \/ timeHandler(r)
         \/ randomHandler(r)

Spec == Init /\ [][Next]_vars

(***************************************************************************)
(* One request after the other.  The goroutine of a request that has been  *)
(* answered ends, and the server takes the next request.                   *)
(***************************************************************************)
NextRequest ==
    /\ req[1].pc = "done"
    /\ requestCount < MaxCount
    /\ req' = [req EXCEPT ![1] = IdleReq]
    /\ UNCHANGED <<Others, requestCount>>

\* the handlers that take no draw, for the one request of SpecSeq and SpecData
Handle ==
    \/ rootHandler(1)
    \/ rootLog(1)
    \/ healthHandler(1)
    \/ versionHandler(1)
    \/ helloHandler(1)
    \/ statusHandler(1)
    \/ featureHandler(1)
    \/ metricsHandler(1)
    \/ metricsLog(1)
    \/ metricsLoad(1)
    \/ echoHandler(1)
    \/ infoHandler(1)
    \/ timeHandler(1)

\* the clock advances to a later reading
Tick ==
    /\ \E t \in Readings :
         /\ t > now
         /\ now' = t
    /\ UNCHANGED <<rev, build, env, startTime, port, mainPc, provider, tracer,
                   warnings, mux, requestCount, req>>

\* the process environment changes: the launcher sets a variable before main
\* reads it, or code in the process calls os.Setenv while it serves
Setenv ==
    /\ \E k \in {"PORT", "APP_ENV"} :
         \E v \in EnvValues(k) \ {env[k]} : env' = [env EXCEPT ![k] = v]
    /\ UNCHANGED <<rev, build, now, startTime, port, mainPc, provider, tracer,
                   warnings, mux, requestCount, req>>

InitSeq ==
    /\ rev \in Revisions
    /\ \E b \in Builds(rev) : Loaded(b)

ServeSeq == Serve(1, SeqRequests)

randomSeq == Random(1, Draws)

NextSeq ==
    \/ InitTracerOk
    \/ InitTracerErr
    \/ RegisterRoutes
    \/ ListenAndServe
    \/ ListenFail
    \/ Tick
    \/ Setenv
    \/ ServeSeq
    \/ Handle
    \/ randomSeq
    \/ NextRequest

SpecSeq == InitSeq /\ [][NextSeq]_vars

ServeData == Serve(1, DataRequests)

randomData == Random(1, DataDraws)

timeData == Time(1, Clocks)

NextData ==
    \/ InitTracerOk
    \/ InitTracerErr
    \/ RegisterRoutes
    \/ ListenAndServe
    \/ ListenFail
    \/ ServeData
    \/ Handle
    \/ randomData
    \/ timeData
    \/ NextRequest

SpecData == Init /\ [][NextData]_vars

(***************************************************************************)
(* Concurrent requests under a fair scheduler: the Go runtime runs every   *)
(* goroutine that can run, and a time.Sleep returns when its duration has  *)
(* passed, so the handler of a request that has arrived takes its steps.   *)
(***************************************************************************)
\* the requests a run of SpecLive draws from: each registered path and one
\* that is not registered
ServeLive(r) == Serve(r, SeqRequests \cup {<<"GET", <<"foo">>, NoQuery>>})

randomLive(r) == Random(r, LiveDraws)

\* the steps of the goroutine that handles request r
LiveStep(r) ==
    \/ rootHandler(r)
    \/ rootLog(r)
    \/ healthHandler(r)
    \/ versionHandler(r)
    \/ helloHandler(r)
    \/ statusHandler(r)
    \/ featureHandler(r)
    \/ metricsHandler(r)
    \/ metricsLog(r)
    \/ metricsLoad(r)
    \/ echoHandler(r)
    \/ infoHandler(r)
    \/ timeHandler(r)
    \/ randomLive(r)

NextLive ==
    \/ InitTracerOk
    \/ InitTracerErr
    \/ RegisterRoutes
    \/ ListenAndServe
    \/ ListenFail
    \/ \E r \in Slots :
         \/ ServeLive(r)
         \/ LiveStep(r)

SpecLive ==
    /\ Init
    /\ [][NextLive]_vars
    /\ \A r \in Slots : WF_vars(LiveStep(r))

(***************************************************************************)
(* Properties.                                                             *)
(***************************************************************************)
IsDone(r) == req[r].pc = "done"

\* no handler is running
Quiescent == \A r \in Slots : req[r].pc \in {"idle", "done"}

\* the paths registered in the running revision
Registered == Patterns(mux)

\* the endpoints the specification calls counted
CountedEndpoints == {RootPath, PFeature, PMetrics, PEcho, PInfo, PTime, PRandom}

\* the requests received so far that addressed a counted endpoint of the revision
CountedRequests ==
    {r \in Slots : req[r].pc /= "idle" /\ req[r].path \in CountedEndpoints \cap Registered}

\* C1: in a revision with the counter, once the N requests to counted
\* endpoints have all been handled, in whatever interleaving, requestCount
\* is exactly N more than the 0 it started from: no increment is lost.
C1_NoLostIncrement ==
    (rev \in CounterRevisions /\ Quiescent)
        => requestCount = Cardinality(CountedRequests)

\* two counted requests overlapped (the first one's /api/metrics response
\* already shows the second one's increment) and both were counted
C1_Witness ==
    /\ rev \in CounterRevisions
    /\ Quiescent
    /\ MaxReq >= 2
    /\ req[1].handler = "metricsHandler" /\ req[1].w.kind = "json"
    /\ req[1].w.body.requestCount = 2
    /\ req[2].pc = "done" /\ req[2].added = 1
    /\ requestCount = 2

\* C2: requestCount starts at 0 and no step of any handler lowers it.
C2_StartsAtZeroNeverDecreases ==
    /\ requestCount = 0
    /\ [][requestCount' >= requestCount]_vars

\* the counter has been raised more than once
C2_Witness == requestCount >= 2

AtomicAccesses == {"atomic.AddInt64", "atomic.LoadInt64"}

\* the next step of request r reads requestCount without an atomic operation
AboutToReadPlainly(r) == req[r].pc = "log"

\* C3: every access a handler makes to requestCount is an atomic operation,
\* so that no handler is ever about to read the counter non-atomically while
\* another request is about to increment it.
C3_EveryAccessAtomic ==
    \A r \in Slots :
        /\ ~(AboutToReadPlainly(r) /\ Racing(r))
        /\ (Quiescent /\ \A s \in Slots : IsDone(s)) => req[r].acc \subseteq AtomicAccesses

\* a request the mux handed to the handler registered for its own path
ServedRegistered(r) ==
    IsDone(r) /\ req[r].path \in Registered /\ req[r].handler /= "RedirectHandler"

\* C4 (as stated): in v2.5 every request to a registered path, /health,
\* /version, /api/hello and /api/status included, raises requestCount by one.
C4_EveryRequestCounted ==
    rev = "v2.5" => \A r \in Slots : ServedRegistered(r) => req[r].added = 1

\* C4 (amended): in v2.5 a request raises requestCount by one exactly when
\* it addresses a counted endpoint; a request to /health, /version,
\* /api/hello or /api/status does not touch the counter.
C4_CountedEndpointsOnly ==
    rev = "v2.5" =>
        \A r \in Slots :
            ServedRegistered(r) =>
                /\ req[r].added = IF req[r].path \in CountedEndpoints THEN 1 ELSE 0
                /\ req[r].path \notin CountedEndpoints => req[r].acc = {}

\* v2.5 has served /api/feature (counted) and /health (not counted)
C4_Witness ==
    /\ rev = "v2.5"
    /\ \E r \in Slots : ServedRegistered(r) /\ req[r].path = PFeature /\ req[r].added = 1
    /\ \E r \in Slots : ServedRegistered(r) /\ req[r].path = PHealth /\ req[r].added = 0
    /\ requestCount = 1

\* initTracer has returned an error
InitFailed == rev = "v2.5" /\ mainPc /= "initTracer" /\ provider = "noop"

\* main's steps after initTracer
MainStep == RegisterRoutes \/ ListenAndServe \/ ListenFail

\* C5: when initTracer fails main goes on: it logs the warning, leaves the
\* tracer unset, registers every route and calls ListenAndServe; it can end
\* only there, and the service serves requests.
C5_StartsWithoutTracer ==
    InitFailed =>
        /\ mainPc \in {"routes", "listen", "serving", "exited"}
        /\ warnings = 1
        /\ mainPc \in {"routes", "listen"} => ENABLED MainStep
        /\ mainPc \in {"listen", "serving", "exited"} => mux = Routes("v2.5")
        /\ (mainPc = "serving" /\ req[1].pc = "idle") => ENABLED ServeHTTP(1)

\* after a failed initTracer the service has answered a request
C5_Witness ==
    /\ InitFailed
    /\ mainPc = "serving"
    /\ \E r \in Slots : ServedRegistered(r) /\ req[r].w.status = 200

\* the JSON fields of each handler's response when no trace ID is attached
PlainFields(h) ==
    CASE h = "healthHandler"  -> {"status", "timestamp"}
      [] h = "versionHandler" -> {"version", "buildTime", "gitCommit"}
      [] h = "helloHandler"   -> {"message", "timestamp"}
      [] h = "statusHandler"  -> {"status", "environment", "uptime", "timestamp"}
      [] h = "featureHandler" -> {"feature", "description", "version", "timestamp"}
      [] h = "metricsHandler" ->
            {"requestCount", "memoryUsage", "goRoutines", "uptime", "timestamp"}
      [] h = "echoHandler"    -> {"echo", "headers", "method", "path", "timestamp"}
      [] h = "infoHandler"    ->
            {"appName", "version", "description", "author", "goVersion", "os",
             "arch", "timestamp"}
      [] h = "timeHandler"    ->
            {"serverTime", "timezone", "unixTime", "dayOfWeek", "weekOfYear",
             "isWeekend", "timestamp"}
      [] h = "randomHandler"  ->
            {"number", "uuid", "color", "quote", "luckyNumber", "dice", "timestamp"}
      [] OTHER                -> {}

\* the response a handler gives when nothing is traced
NormalUntraced(r) ==
    IF req[r].handler = "rootHandler"
    THEN /\ req[r].w.kind = "html"
         /\ req[r].w.status = 200
    ELSE /\ req[r].w.kind = "json"
         /\ req[r].w.status = 200
         /\ DOMAIN req[r].w.body = PlainFields(req[r].handler)

\* C6: after a failed initTracer the tracer stays nil, no handler starts a
\* span or sets a span status, the warning was logged exactly once, and
\* every handler gives its normal response.
C6_UntracedAfterFailure ==
    InitFailed =>
        /\ tracer = "nil"
        /\ warnings = 1
        /\ \A r \in Slots :
              /\ req[r].spans = {}
              /\ req[r].spanStatus = "Unset"
              /\ req[r].traceId = ""
              /\ ServedRegistered(r) => NormalUntraced(r)

\* untraced, /api/random has drawn a number above 950 and /api/echo was served
C6_Witness ==
    /\ InitFailed
    /\ \E r \in Slots : ServedRegistered(r) /\ req[r].handler = "randomHandler"
                          /\ req[r].num > 950
    /\ \E r \in Slots : ServedRegistered(r) /\ req[r].handler = "echoHandler"

\* a path in the form the mux keeps: no "." or ".." segment and no empty
\* segment but a last one (the trailing slash)
IsCanonical(p) ==
    \A i \in 1..Len(p) : p[i] \notin {".", ".."} /\ (p[i] = "" => i = Len(p))

\* only the exact path "/" is answered with the landing page, and a path that
\* is not registered is never answered with a handler's JSON
NoPageNoJsonElsewhere ==
    \A r \in Slots :
        IsDone(r) =>
            /\ req[r].w.kind = "html" => req[r].path = RootPath
            /\ req[r].path \notin Registered => req[r].w.kind /= "json"

\* C7 (as stated): a request whose path is not registered is dispatched to
\* the root handler and answered 404; only "/" gets the landing page.
C7_UnregisteredIs404 ==
    /\ NoPageNoJsonElsewhere
    /\ \A r \in Slots :
          (IsDone(r) /\ req[r].path \notin Registered) =>
              /\ req[r].handler = "rootHandler"
              /\ req[r].w.status = 404

\* C7 (amended): a request whose path is not registered and is in canonical
\* form (or whose method is CONNECT) is dispatched to the root handler and
\* answered 404; one whose path is not canonical is answered by the mux with
\* a redirect to the canonical path, and no handler runs; only "/" gets the
\* landing page and no such request gets a handler's JSON.
C7_UnregisteredIs404OrRedirect ==
    /\ NoPageNoJsonElsewhere
    /\ \A r \in Slots :
          (IsDone(r) /\ req[r].path \notin Registered) =>
              IF IsCanonical(req[r].path) \/ req[r].method = "CONNECT"
              THEN /\ req[r].handler = "rootHandler"
                   /\ req[r].w.status = 404
                   /\ req[r].w.kind = "text"
                   /\ req[r].added = 0
              ELSE /\ req[r].handler = "RedirectHandler"
                   /\ req[r].w.status = 301
                   /\ IsCanonical(req[r].w.body.location)
                   /\ req[r].added = 0

\* "/health/" was answered 404 by the root handler and "//health" redirected
C7_Witness ==
    /\ \E r \in Slots : /\ IsDone(r) /\ req[r].path = <<"health", "">>
                        /\ req[r].w.status = 404
    /\ \E r \in Slots : /\ IsDone(r) /\ req[r].path = <<"", "health">>
                        /\ req[r].w.status = 301
                        /\ req[r].w.body.location = PHealth

\* C8: a registered path answers every method alike: status 200, never 405,
\* and the same response shape whatever the method.
C8_AnyMethodAccepted ==
    \A r \in Slots :
        ServedRegistered(r) =>
            /\ req[r].w.status = 200
            /\ \A s \in Slots :
                  (ServedRegistered(s) /\ req[s].path = req[r].path) =>
                      /\ req[s].w.status = req[r].w.status
                      /\ req[s].w.kind = req[r].w.kind
                      /\ req[s].w.ctype = req[r].w.ctype
                      /\ DOMAIN req[s].w.body = DOMAIN req[r].w.body

\* /api/echo was requested with GET and with CONNECT and answered both
C8_Witness ==
    \E r, s \in Slots :
        /\ ServedRegistered(r) /\ ServedRegistered(s)
        /\ req[r].path = PEcho /\ req[s].path = PEcho
        /\ req[r].method = "GET" /\ req[s].method = "CONNECT"
        /\ req[s].w.body.method = "CONNECT"

\* C9: every handler but the root handler writes one response, status 200,
\* with Content-Type application/json sent with the status line; the root
\* handler answers "/" with text/html; charset=utf-8 and status 200.
C9_JsonOrHtml ==
    \A r \in Slots :
        (IsDone(r) /\ req[r].handler /= "RedirectHandler") =>
            IF req[r].handler /= "rootHandler"
            THEN /\ req[r].w.status = 200
                 /\ req[r].w.ctype = "application/json"
                 /\ req[r].w.nWriteHeader = 1
                 /\ req[r].w.kind = "json"
            ELSE req[r].path = RootPath =>
                    /\ req[r].w.status = 200
                    /\ req[r].w.ctype = "text/html; charset=utf-8"
                    /\ req[r].w.kind = "html"

\* a JSON handler and the root handler have both answered
C9_Witness ==
    /\ \E r \in Slots : IsDone(r) /\ req[r].handler = "versionHandler"
    /\ \E r \in Slots : IsDone(r) /\ req[r].handler = "rootHandler"
                          /\ req[r].path = RootPath

\* C10: no registered route is answered with an error; in v2.5, when
\* /api/random draws a number above 950, the error goes to the log and, when
\* the tracer is set, to the handler's span, and the response is still 200
\* with the whole RandomResponse, that number included.
C10_SimulatedErrorStill200 ==
    \A r \in Slots :
        ServedRegistered(r) =>
            /\ req[r].w.status < 400
            /\ (rev = "v2.5" /\ req[r].handler = "randomHandler" /\ req[r].num > 950) =>
                  /\ req[r].w.status = 200
                  /\ PlainFields("randomHandler") \subseteq DOMAIN req[r].w.body
                  /\ req[r].w.body.number = req[r].num
                  /\ req[r].errLogged
                  /\ req[r].spanStatus = IF TracerOn(tracer) THEN "Error" ELSE "Unset"

\* traced, /api/random drew 951, marked its span and answered
C10_Witness ==
    \E r \in Slots :
        /\ ServedRegistered(r)
        /\ rev = "v2.5" /\ tracer /= "nil"
        /\ req[r].handler = "randomHandler"
        /\ req[r].num = 951
        /\ req[r].spanStatus = "Error"
        /\ "traceId" \in DOMAIN req[r].w.body


(***************************************************************************)
(* Properties of the responses' contents.                                  *)
(***************************************************************************)
\* the string s has the string x in it, unbroken
Contains(s, x) ==
    \E i \in 0..(Len(s) - Len(x)) : SubSeq(s, i + 1, i + Len(x)) = x

\* the answered request in slot r was handled by h
Handled(r, h) == IsDone(r) /\ req[r].handler = h /\ req[r].w.kind = "json"

\* the query is k=X alone: one parameter, given once
IsSingle(q, k) ==
    /\ Len(q) >= 2 /\ q[1] = k /\ q[2] = "="
    /\ \A i \in 1..Len(q) : q[i] /= "&"

\* X in the query k=X
RawValue(q) == SubSeq(q, 3, Len(q))

\* the characters that stand for themselves in a query
PlainTokens == {"a", "U+6D4B"}

IsPlain(X) == \A i \in 1..Len(X) : X[i] \in PlainTokens

IsMalformed(X) == \E i \in 1..Len(X) : X[i] = "%zz"

\* what a client that reads the JSON finds for the raw value X: "+" is a
\* space, %41 is "A", the byte FF comes back as U+FFFD
AsRead(X) ==
    [i \in 1..Len(X) |->
        CASE X[i] = "+"   -> " "
          [] X[i] = "%41" -> "A"
          [] X[i] = "%FF" -> "U+FFFD"
          [] OTHER        -> X[i]]

\* the parameter k has no usable value: no k in the query, k without a
\* value, an empty value, or a value with a malformed escape
NoValue(q, k) ==
    \/ q = NoQuery
    \/ q = <<k>>
    \/ IsSingle(q, k) /\ (RawValue(q) = <<>> \/ IsMalformed(RawValue(q)))

\* C11 (as stated): /api/hello's message starts with "Hello,"; without a
\* name, or with an empty one, it contains "World"; with name=X, X not
\* empty, it contains X verbatim.
C11_HelloContainsNameVerbatim ==
    \A r \in Slots :
        Handled(r, "helloHandler") =>
            LET q   == req[r].query
                msg == req[r].w.body.message
            IN /\ msg[1] = "Hello, "
               /\ (q = NoQuery \/ q = <<"name">> \/ q = RawQuery("name", <<>>))
                     => Contains(msg, <<"World">>)
               /\ (IsSingle(q, "name") /\ RawValue(q) /= <<>>)
                     => Contains(msg, RawValue(q))

\* C11 (amended): the message starts with "Hello,"; it contains "World"
\* when name is absent, empty or malformed; it contains X verbatim when X
\* is made of characters that stand for themselves (non-ASCII included);
\* in general it contains the value the query parser decodes from X ("+"
\* a space, %XX a byte), with a byte that is no UTF-8 replaced by U+FFFD;
\* of several name parameters the first counts.
C11_HelloContainsDecodedName ==
    \A r \in Slots :
        Handled(r, "helloHandler") =>
            LET q   == req[r].query
                msg == req[r].w.body.message
                X   == RawValue(q)
            IN /\ msg[1] = "Hello, "
               /\ Len(msg) >= 3
               /\ NoValue(q, "name") => msg[2] = "World" /\ Len(msg) = 3
               /\ (IsSingle(q, "name") /\ X /= <<>> /\ IsPlain(X))
                     => SubSeq(msg, 2, Len(msg) - 1) = X
               /\ (IsSingle(q, "name") /\ X /= <<>> /\ ~IsMalformed(X))
                     => SubSeq(msg, 2, Len(msg) - 1) = AsRead(X)
               /\ q = <<"name", "=", "a", "&", "name", "=", "U+6D4B">>
                     => SubSeq(msg, 2, Len(msg) - 1) = <<"a">>

\* /api/hello was asked with a non-ASCII name and with an escaped one
C11_Witness ==
    \E r \in Slots :
        /\ Handled(r, "helloHandler")
        /\ req[r].query = RawQuery("name", <<"U+6D4B", "+">>)
        /\ Contains(req[r].w.body.message, <<"U+6D4B", " ">>)
        /\ rev = "v2.5"

\* C12 (as stated): /api/echo with message=M, M not empty, answers echo = M,
\* method = the request's method, path = the request's path, for every
\* method; without a message, or with an empty one, echo is the revision's
\* default text.
C12_EchoIsMessageVerbatim ==
    \A r \in Slots :
        Handled(r, "echoHandler") =>
            LET q == req[r].query
                b == req[r].w.body
            IN /\ b.method = req[r].method
               /\ b.path = req[r].path
               /\ (q = NoQuery \/ q = <<"message">> \/ q = RawQuery("message", <<>>))
                     => b.echo = <<EchoDefault(rev)>>
               /\ (IsSingle(q, "message") /\ RawValue(q) /= <<>>)
                     => b.echo = RawValue(q)

\* C12 (amended): method and path are the request's; echo is the default
\* text when message is absent, empty or malformed, and never empty; it is
\* M itself when M is made of characters that stand for themselves; in
\* general it is the value the query parser decodes from M, with a byte
\* that is no UTF-8 replaced by U+FFFD; of several message parameters the
\* first counts.
C12_EchoIsDecodedMessage ==
    \A r \in Slots :
        Handled(r, "echoHandler") =>
            LET q == req[r].query
                b == req[r].w.body
                M == RawValue(q)
            IN /\ b.method = req[r].method
               /\ b.path = req[r].path
               /\ b.path = PEcho
               /\ b.echo /= <<>>
               /\ NoValue(q, "message") =>
                     b.echo = <<IF rev = "v2.5"
                                THEN "Hello from Echo API with OpenTelemetry!"
                                ELSE "Hello from Echo API!">>
               /\ (IsSingle(q, "message") /\ M /= <<>> /\ IsPlain(M)) => b.echo = M
               /\ (IsSingle(q, "message") /\ M /= <<>> /\ ~IsMalformed(M))
                     => b.echo = AsRead(M)
               /\ q = <<"message", "=", "a", "&", "message", "=", "U+6D4B">>
                     => b.echo = <<"a">>

\* /api/echo was asked by POST with two message parameters
C12_Witness ==
    \E r \in Slots :
        /\ Handled(r, "echoHandler")
        /\ req[r].method = "POST"
        /\ req[r].query = <<"message", "=", "a", "&", "message", "=", "U+6D4B">>
        /\ req[r].w.body.echo = <<"a">>
        /\ req[r].w.body.method = "POST"

\* C13: /api/random answers with exactly 3 dice, each an integer from 1 to 6,
\* whatever the random source gives.
C13_ThreeDiceOneToSix ==
    \A r \in Slots :
        Handled(r, "randomHandler") =>
            LET dice == req[r].w.body.dice
            IN /\ Len(dice) = 3
               /\ \A i \in 1..Len(dice) : dice[i] \in 1..6

\* the dice showed the lowest and the highest face
C13_Witness ==
    \E r \in Slots :
        /\ Handled(r, "randomHandler")
        /\ req[r].w.body.dice = <<1, 6, 3>>

\* the characters of a hexadecimal number
IsHex(s) == \A i \in 1..Len(s) : \E j \in 1..16 : s[i] = HexDigits[j]

\* the groups of a uuid: what stands between its hyphens
Groups(u) == SplitOn(u, "-", <<>>, <<>>)

\* C14: /api/random's uuid is five groups of hexadecimal digits, of exactly
\* 8, 4, 4, 4 and 12 digits, whatever the random source gives.
C14_UuidShaped ==
    \A r \in Slots :
        Handled(r, "randomHandler") =>
            LET g == Groups(req[r].w.body.uuid)
            IN /\ Len(g) = 5
               /\ \A i \in 1..Len(g) : IsHex(g[i])
               /\ <<Len(g[1]), Len(g[2]), Len(g[3]), Len(g[4]), Len(g[5])>>
                     = <<8, 4, 4, 4, 12>>

\* the handlers of v2.5 whose response struct has a TraceID
TraceHandlers == {"helloHandler", "statusHandler", "echoHandler", "randomHandler"}

\* C15: in v2.5 the responses of /api/hello, /api/status, /api/echo and
\* /api/random have a traceId exactly when the request came with a valid
\* span context, and it is then the trace ID of the request's own server
\* span, though the handler answers from a child span; no other response
\* has a traceId, and none has an empty one.
C15_TraceIdOfOwnTrace ==
    \A r \in Slots :
        (IsDone(r) /\ req[r].w.kind = "json") =>
            LET b == req[r].w.body
            IN IF rev = "v2.5" /\ req[r].handler \in TraceHandlers
               THEN /\ "traceId" \in DOMAIN b <=> req[r].traceId /= ""
                    /\ "traceId" \in DOMAIN b =>
                          /\ b.traceId = req[r].traceId
                          /\ b.traceId = TraceIDs[r]
                          /\ req[r].ctx.spanID /= "demo-app"
                    /\ "traceId" \notin DOMAIN b => getTraceID(req[r]) = ""
               ELSE "traceId" \notin DOMAIN b

\* two traced requests, each answered with the ID of its own trace
C15_Witness ==
    /\ rev = "v2.5"
    /\ MaxReq >= 2
    /\ Handled(1, "helloHandler") /\ Handled(2, "echoHandler")
    /\ req[1].w.body.traceId = "trace-1"
    /\ req[2].w.body.traceId = "trace-2"
    /\ "helloHandler.processGreeting" \in req[1].spans

\* C16: a request to /health, whatever its method and query, whatever the
\* counter and the tracer are, is answered by healthHandler with status 200
\* and {status: "healthy", timestamp}, and nothing else.
C16_HealthAlwaysHealthy ==
    \A r \in Slots :
        (IsDone(r) /\ req[r].path = PHealth) =>
            /\ req[r].handler = "healthHandler"
            /\ req[r].w.status = 200
            /\ req[r].w.kind = "json"
            /\ req[r].w.body.status = "healthy"
            /\ DOMAIN req[r].w.body = {"status", "timestamp"}
            /\ req[r].added = 0

\* /health was asked by POST, with a query, after the counter had moved
C16_Witness ==
    \E r \in Slots :
        /\ Handled(r, "healthHandler")
        /\ req[r].method = "POST"
        /\ req[r].query /= NoQuery
        /\ requestCount > 0

\* the responses that report the version report the variable's value
ReportsBuild(r) ==
    LET b == req[r].w.body
    IN /\ Handled(r, "versionHandler") =>
             /\ b.version = build.Version /\ b.version /= ""
             /\ b.buildTime = build.BuildTime
             /\ b.gitCommit = build.GitCommit
       /\ Handled(r, "featureHandler") => b.version = build.Version
       /\ Handled(r, "infoHandler") =>
             b.version = build.Version /\ b.appName = "Demo App"

\* C17: no step writes Version, BuildTime or GitCommit; /version answers
\* with their values, the version not empty, and /api/feature and /api/info
\* report the same version, after any sequence of requests.
C17_BuildConstants ==
    /\ [](\A r \in Slots : ReportsBuild(r))
    /\ [][build' = build]_vars

\* a linked build has answered /api/info after other requests
C17_Witness ==
    /\ build = LinkedBuild
    /\ rev = "v2.4"
    /\ requestCount = 2
    /\ Handled(1, "infoHandler")
    /\ req[1].w.body.version = "1.0.0"

\* C18: /api/metrics reports goRoutines > 0, in every interleaving.
C18_GoRoutinesPositive ==
    \A r \in Slots :
        Handled(r, "metricsHandler") => req[r].w.body.goRoutines > 0

\* /api/metrics has answered while another request was in its handler
C18_Witness ==
    \E r \in Slots :
        /\ Handled(r, "metricsHandler")
        /\ req[r].w.body.goRoutines = 3

\* the seconds a Duration.String() of whole seconds stands for
Seconds(u) ==
    CASE Len(u) = 2 -> u[1]
      [] Len(u) = 4 -> 60 * u[1] + u[3]
      [] OTHER      -> 3600 * u[1] + 60 * u[3] + u[5]

\* slot 1's handler, /api/status or /api/metrics, writes its response in this step
AnswersUptime ==
    /\ req[1].pc /= "done"
    /\ req'[1].pc = "done"
    /\ req'[1].handler \in {"statusHandler", "metricsHandler"}

\* C19: /api/status answers status "running"; no step writes startTime; the
\* uptime /api/status and /api/metrics report is the one of the moment they
\* answer, which is never negative and never less than at an earlier moment.
C19_UptimeNeverDecreases ==
    /\ startTime = now
    /\ [](\A r \in Slots :
              Handled(r, "statusHandler") => req[r].w.body.status = "running")
    /\ [][/\ startTime' = startTime
          /\ Seconds(Uptime(startTime, now)) >= 0
          /\ Seconds(Uptime(startTime', now')) >= Seconds(Uptime(startTime, now))
          /\ AnswersUptime => req'[1].w.body.uptime = Uptime(startTime, now)]_vars

\* /api/status has answered one minute after the start, after other requests
C19_Witness ==
    /\ Handled(1, "statusHandler")
    /\ req[1].w.body.uptime = <<1, "m", 0, "s">>
    /\ requestCount > 0

\* the value of a variable of the environment, or the default
OrDefault(v, default) == IF v = Unset \/ v = "" THEN default ELSE v

\* C20: main reads PORT once: the service listens on 8000 when PORT is unset
\* or empty, on PORT otherwise, and a later change of PORT changes nothing;
\* /api/status reads APP_ENV at each request: it reports "development" when
\* APP_ENV is then unset or empty, APP_ENV otherwise.
C20_PortOnceEnvEachRequest ==
    [][/\ (mainPc = "routes" /\ mainPc' = "listen")
             => port' = OrDefault(env.PORT, "8000")
       /\ mainPc \in {"listen", "serving", "exited"} => port' = port
       /\ (req[1].pc /= "done" /\ req'[1].pc = "done"
             /\ req'[1].handler = "statusHandler")
             => req'[1].w.body.environment = OrDefault(env.APP_ENV, "development")
      ]_vars

\* started without PORT and APP_ENV; both were set later; /api/status has
\* reported the new APP_ENV and the service still listens on 8000
C20_Witness ==
    /\ mainPc = "serving"
    /\ port = "8000"
    /\ env.PORT = "9090"
    /\ Handled(1, "statusHandler")
    /\ req[1].w.body.environment = "production"

(***************************************************************************)
(* Properties of the counter's frame, of the spans and of main's exit.     *)
(***************************************************************************)
\* the handlers that never call atomic.AddInt64
UncountedHandlers == {"healthHandler", "versionHandler", "helloHandler", "statusHandler"}

\* request r is in its handler, and the handler is one that does not count:
\* one of the four, or rootHandler called for a path that is not "/"
InUncounted(r) ==
    /\ req[r].pc = "handler"
    /\ \/ req[r].handler \in UncountedHandlers
       \/ req[r].handler = "rootHandler" /\ req[r].path /= RootPath

\* C23: a request to /health, /version, /api/hello or /api/status, and a
\* request to a path that is not registered (answered with 404), leaves
\* requestCount as it is, from its arrival to its answer; rootHandler
\* increments only for the path "/", after its path test.
C23_UncountedLeaveCounter ==
    [][\A r \in Slots :
          /\ (req[r].pc = "idle" /\ req'[r].pc /= "idle") => requestCount' = requestCount
          /\ (InUncounted(r) /\ req'[r] /= req[r]) =>
                 /\ requestCount' = requestCount
                 /\ req'[r].pc = "done"
                 /\ req'[r].added = 0 /\ req'[r].acc = {}
                 /\ req[r].handler = "rootHandler" => req'[r].w.status = 404
          /\ (req[r].handler = "rootHandler" /\ req'[r].added > req[r].added) =>
                 req[r].path = RootPath
      ]_vars

\* a revision with the counter has answered a request to /health and one to
\* an unregistered path (404), and the counter is still 0
C23_Witness ==
    /\ rev \in CounterRevisions
    /\ requestCount = 0
    /\ \E r, s \in Slots :
         /\ IsDone(r) /\ req[r].handler = "healthHandler" /\ req[r].w.status = 200
         /\ IsDone(s) /\ req[s].handler = "rootHandler" /\ req[s].path /= RootPath
         /\ req[s].w.status = 404

\* the counted requests that have arrived: a counting handler was called,
\* rootHandler for the path "/"
StartedCounted ==
    {s \in Slots : /\ req[s].pc /= "idle"
                   /\ Counted(rev, req[s].handler)
                   /\ req[s].handler = "rootHandler" => req[s].path = RootPath}

\* the requests whose increment has completed
Added == {s \in Slots : req[s].added = 1}

\* no other request is in its handler
Alone(r) == \A s \in Slots \ {r} : req[s].pc \in {"idle", "done"}

\* C24: the requestCount /api/metrics returns includes the request's own
\* increment: it is at least 1, at least one more than the counter was when
\* the request arrived, at most the number of counted requests that have
\* arrived, and exactly that number when no other request is being handled.
C24_MetricsCountsItself ==
    [][\A r \in Slots :
          (At(r, "metricsHandler", "load") /\ req'[r].pc = "done") =>
              LET n == req'[r].w.body.requestCount IN
              /\ n >= 1
              /\ n = Cardinality(Added)
              /\ r \in Added
              /\ n >= req[r].seen + 1
              /\ n <= Cardinality(StartedCounted)
              /\ Alone(r) => n = Cardinality(StartedCounted)
      ]_vars

\* /api/metrics has reported 2 while the other counted request, whose
\* increment it includes, is still in its handler
C24_Witness ==
    \E r \in Slots :
        /\ Handled(r, "metricsHandler")
        /\ req[r].w.body.requestCount = 2
        /\ \E s \in Slots \ {r} : req[s].pc = "load" /\ req[s].added = 1

\* C26: in v2.5, when initTracer succeeded, the provider's Shutdown, which
\* main deferred, has been executed once the process has exited, also when
\* ListenAndServe returned an error and main ended through log.Fatal.
C26_ShutdownBeforeExit ==
    (rev = "v2.5" /\ mainPc = "exited" /\ TracerOn(tracer)) => provider = "shutdown"

\* C27: whatever the random source gives, /api/random answers with number
\* in 0..999, luckyNumber in 1..100, color one of the 8 entries of the
\* palette and quote one of the 5 quotes (no index leaves its slice, so the
\* handler does not panic); color and uuid are not empty.
C27_RandomRanges ==
    \A r \in Slots :
        (req[r].handler = "randomHandler" /\ IsDone(r)) =>
            /\ req[r].w.kind = "json"
            /\ LET b == req[r].w.body IN
               /\ b.number \in 0..999
               /\ b.luckyNumber \in 1..100
               /\ \E i \in 1..8 : b.color = colors[i]
               /\ \E i \in 1..5 : b.quote = quotes[i]
               /\ b.color /= "" /\ b.color /= "panic" /\ b.quote /= "panic"
               /\ b.uuid /= <<>>

\* the last entry of the palette and the last quote have been drawn
C27_Witness ==
    /\ Handled(1, "randomHandler")
    /\ req[1].w.body.color = "#F7DC6F"
    /\ req[1].w.body.quote = quotes[5]

\* the positions of the events op of span n in the events ev
EventsOf(ev, op, n) == {i \in DOMAIN ev : ev[i].op = op /\ ev[i].span = n}

\* the spans the events ev name
SpansOf(ev) == {ev[i].span : i \in {k \in DOMAIN ev : ev[k].span /= ""}}

SubSpanNames == {"database.query", "external.api.call", "cache.lookup"}

\* span n is started once and ended at most once, after its start; nothing
\* is done with it before its start or after its end
UsedWhileOpen(ev, n) ==
    /\ Cardinality(EventsOf(ev, "start", n)) = 1
    /\ Cardinality(EventsOf(ev, "end", n)) <= 1
    /\ \A i \in EventsOf(ev, "start", n) :
         /\ \A k \in DOMAIN ev : ev[k].span = n => k >= i
         /\ \A j \in EventsOf(ev, "end", n) : \A k \in DOMAIN ev : ev[k].span = n => k <= j

\* sub-span n is ended before another span starts and before the handler's
\* own span (the first started) is ended
SubSpanClosedFirst(ev, n) ==
    \A i \in EventsOf(ev, "start", n) :
        \E j \in EventsOf(ev, "end", n) :
            /\ \A k \in (i + 1)..(j - 1) : ev[k].op /= "start" /\ ev[k].op /= "end"
            /\ \A k \in EventsOf(ev, "end", ev[1].span) : j < k

\* C25: in v2.5 every span a handler starts is ended exactly once by the
\* time the handler has returned, on the 404 path of rootHandler and on the
\* simulated-error path of randomHandler too; a sub-span is ended before the
\* next span starts and before the handler's span ends; no span is used
\* after its end.
C25_SpansEndedOnce ==
    \A r \in Slots :
        LET ev == req[r].events IN
        /\ SpansOf(ev) = req[r].spans
        /\ \A n \in SpansOf(ev) : UsedWhileOpen(ev, n)
        /\ IsDone(r) =>
              /\ req[r].deferred = <<>>
              /\ \A n \in SpansOf(ev) : Cardinality(EventsOf(ev, "end", n)) = 1
              /\ \A n \in SpansOf(ev) \cap SubSpanNames : SubSpanClosedFirst(ev, n)
              /\ (Tracing /\ req[r].handler \in TraceHandlers \cup {"rootHandler"})
                    => ev /= <<>> /\ ev[1].op = "start" /\ ev[Len(ev)].op = "end"
                       /\ ev[Len(ev)].span = ev[1].span

\* traced: rootHandler has answered 404 with its span ended, and
\* randomHandler has drawn a number above 950, recorded the error on its span
\* and ended its three spans
C25_Witness ==
    \E r, s \in Slots :
        /\ IsDone(r) /\ req[r].handler = "rootHandler" /\ req[r].w.status = 404
        /\ req[r].events = <<Ev("start", "rootHandler", 0), Ev("use", "rootHandler", 0),
                             Ev("end", "rootHandler", 0)>>
        /\ IsDone(s) /\ req[s].handler = "randomHandler" /\ req[s].num > 950
        /\ req[s].spanStatus = "Error"
        /\ Len(req[s].events) = 11
        /\ req[s].spans = {"randomHandler.generateData", "external.api.call",
                           "cache.lookup"}

\* the sleeps among the events of request r
SleepsOf(r) == {i \in DOMAIN req[r].events : req[r].events[i].op = "sleep"}

\* the bound of a sleep: by the sub-span it is in, or helloHandler's own
SleepBound(span) ==
    CASE span = "database.query"    -> 30
      [] span = "external.api.call" -> 100
      [] span = "cache.lookup"      -> 10
      [] OTHER                      -> 50

\* the handler a sleep belongs to
SleepHandler(span) ==
    CASE span = "database.query" -> "echoHandler"
      [] span = ""               -> "helloHandler"
      [] OTHER                   -> "randomHandler"

\* only v2.5 sleeps, in the three handlers, each sleep shorter than its bound
SleepsBounded ==
    \A r \in Slots : \A i \in SleepsOf(r) :
        LET e == req[r].events[i] IN
        /\ rev = "v2.5"
        /\ req[r].handler = SleepHandler(e.span)
        /\ e.ms >= 0 /\ e.ms < SleepBound(e.span)

\* every request whose handler has been called is answered, whatever the
\* other requests do and whether or not another request ever arrives: the
\* scheduler is fair to the request's own goroutine only
Terminates == \A r \in Slots : (req[r].pc \notin {"idle", "done"}) ~> IsDone(r)

\* C21 (as stated): every request to a registered path is answered, no
\* handler waits for a lock, a channel or another request; only v2.5
\* sleeps, each sleep is bounded (hello < 50 ms, database span < 30 ms,
\* external-call span < 100 ms, cache span < 10 ms), and a handler sleeps
\* only when it is being traced.
C21_SleepsOnlyWhenTraced ==
    /\ []SleepsBounded
    /\ [](\A r \in Slots : SleepsOf(r) /= {} => Tracing)
    /\ Terminates

\* C21 (amended): as stated, but only the sleeps of the sub-spans of
\* /api/echo and /api/random depend on the tracer; /api/hello of v2.5 sleeps
\* once, for less than 50 ms, at every request, traced or not.
C21_BoundedSleepsAndAnswer ==
    /\ []SleepsBounded
    /\ [](\A r \in Slots :
            /\ \A i \in SleepsOf(r) : req[r].events[i].span /= "" => Tracing
            /\ (IsDone(r) /\ req[r].handler = "helloHandler")
                  => Cardinality(SleepsOf(r)) = IF rev = "v2.5" THEN 1 ELSE 0)
    /\ Terminates

\* v2.5 without a tracer has answered /api/hello after a sleep of 49 ms, and
\* /api/random without any sleep
C21_Witness ==
    /\ rev = "v2.5" /\ ~Tracing
    /\ \E r, s \in Slots :
         /\ IsDone(r) /\ req[r].handler = "helloHandler"
         /\ req[r].events = <<Ev("sleep", "", 49)>>
         /\ IsDone(s) /\ req[s].handler = "randomHandler" /\ req[s].events = <<>>

\* the days from 1970-01-01 to the date y-m-d
DaysFromCivil(y, m, d) ==
    LET yy  == IF m <= 2 THEN y - 1 ELSE y
        era == yy \div 400
        yoe == yy - era * 400
        mm  == IF m > 2 THEN m - 3 ELSE m + 9
        doy == (153 * mm + 2) \div 5 + d - 1
        doe == yoe * 365 + yoe \div 4 - yoe \div 100 + doy
    IN era * 146097 + doe - 719468

\* the instant the text <<year, month, day, hour, minute, second>> denotes
\* in a zone that is offset seconds ahead of UTC
Instant(t, offset) ==
    DaysFromCivil(t[1], t[2], t[3]) * 86400 + t[4] * 3600 + t[5] * 60 + t[6] - offset

\* the day of the week of the date y-m-d, by the table of month offsets
DayName(y, m, d) ==
    LET t  == <<0, 3, 2, 5, 0, 3, 5, 1, 4, 6, 2, 4>>
        yy == IF m < 3 THEN y - 1 ELSE y
    IN <<"Sunday", "Monday", "Tuesday", "Wednesday", "Thursday", "Friday", "Saturday">>
           [((yy + yy \div 4 - yy \div 100 + yy \div 400 + t[m] + d) % 7) + 1]

\* the ISO 8601 week of the date y-m-d: the Thursdays of the year of the
\* week's Thursday, up to that Thursday
WeekOfDate(y, m, d) ==
    LET n    == DaysFromCivil(y, m, d)
        thu  == n - ((n + 3) % 7) + 3
        ty   == CHOOSE yr \in {y - 1, y, y + 1} :
                    DaysFromCivil(yr, 1, 1) <= thu /\ thu < DaysFromCivil(yr + 1, 1, 1)
    IN Cardinality({k \in DaysFromCivil(ty, 1, 1)..thu : (k + 4) % 7 = 4})

\* C22: /api/time computes its fields from one reading of the clock:
\* isWeekend is true exactly when dayOfWeek is "Saturday" or "Sunday",
\* unixTime is positive, serverTime is not empty, and unixTime, serverTime
\* (in the server's zone), dayOfWeek, weekOfYear and timestamp (in UTC)
\* all denote the same instant.
C22_OneClockReading ==
    \A r \in Slots :
        Handled(r, "timeHandler") =>
            LET b == req[r].w.body
                t == b.serverTime
            IN /\ b.isWeekend = (b.dayOfWeek \in {"Saturday", "Sunday"})
               /\ b.unixTime > 0
               /\ t /= <<>> /\ Len(t) = 6
               /\ b.timestamp[7] = "Z"
               /\ Instant(b.timestamp, 0) = b.unixTime
               /\ \E offset \in {0, 28800, -18000} : Instant(t, offset) = b.unixTime
               /\ b.dayOfWeek = DayName(t[1], t[2], t[3])
               /\ b.weekOfYear = WeekOfDate(t[1], t[2], t[3])

\* answered on a Saturday evening in UTC that is already Sunday in the
\* server's zone
C22_Witness ==
    /\ Handled(1, "timeHandler")
    /\ req[1].w.body.timestamp = <<2026, 10, 31, 23, 30, 0, "Z">>
    /\ req[1].w.body.serverTime = <<2026, 11, 1, 7, 30, 0>>
    /\ req[1].w.body.dayOfWeek = "Sunday"
    /\ req[1].w.body.isWeekend
    /\ req[1].w.body.weekOfYear = 44

====
